---------------------------- MODULE Spec2Model ----------------------------
(***************************************************************************)
(* Model of edi_oca/models/edi_backend.py (EDIBackend): the lifecycle      *)
(* actions generate / send / receive / process on exchange records, the    *)
(* component (handler) lookup, the exception handling of each action, and  *)
(* the output and input sweeps with the jobs they hand to the job queue.   *)
(***************************************************************************)
EXTENDS Integers, Sequences, FiniteSets, TLC

VARIABLES
    registry,   \* registered component classes, in registration order
    records,    \* edi.exchange.record rows; a record's id is its position
    last,       \* the last call made on the backend: arguments and outcome
    e2e,        \* progress of record 1 along the end-to-end scenario
    jobs,       \* the jobs handed to the job queue; a job's id is its position
    created     \* the state each record was created in

vars == <<registry, records, last, e2e, jobs, created>>

-----------------------------------------------------------------------------
(* Bounds of the model *)

MaxNow == 1
MaxHandlers == 2

-----------------------------------------------------------------------------
(* Python / Odoo values.  Every value has the same shape so that any two  *)
(* can be compared.                                                        *)

PyFalse == [t |-> "False", v |-> <<>>]
PyNone == [t |-> "None", v |-> <<>>]
Bytes(s) == [t |-> "bytes", v |-> s]
Str(s) == [t |-> "str", v |-> s]

\* Python truthiness: False, None, "" and b"" are falsy
Truthy(x) == x.t \in {"bytes", "str"} /\ x.v # <<>>

\* text of the traceback of the exception being handled: never empty
_get_exception_msg == Str(<<84>>)

-----------------------------------------------------------------------------
(* Configuration entities: backends and exchange types                     *)

BackendIds == {1, 2}

\* The lifecycle calls take one record and read and write no other: the
\* lifecycle is followed for one record.
RecordIds == {1}

Backends ==
    [b \in BackendIds |->
        [backend_type |-> "bt_a", output_sent_processed_auto |-> (b = 2)]]

\* the action keys of _is_valid_edi_action, and the validate lookup
ActionKeys == {"generate", "send", "process", "receive", "check", "validate"}

TypeCodes == {"out_utf8", "out_ascii", "in_strict", "in_empty", "out_foreign"}

\* encoding / encoding_out_error_handler "" is an unset field
\* components: the usage configured in the type's settings per action key
\* ("" when the settings hold nothing for the key)
ExchangeTypes ==
    [c \in TypeCodes |->
        [direction |-> IF c \in {"in_strict", "in_empty"} THEN "input" ELSE "output",
         backend_type |-> IF c = "out_foreign" THEN "bt_b" ELSE "bt_a",
         encoding |-> IF c = "out_ascii" THEN "ascii" ELSE "",
         encoding_out_error_handler |-> IF c = "out_ascii" THEN "ignore" ELSE "",
         allow_empty_files_on_receive |-> (c = "in_empty"),
         exchange_file_auto_generate |-> (c = "out_utf8"),
         components |-> [key \in ActionKeys |->
                            IF c = "out_ascii" /\ key = "send"
                            THEN "custom.send" ELSE ""]]]

Direction(rec) == ExchangeTypes[rec.type].direction

States ==
    {"new", "output_pending", "output_sent", "output_sent_and_processed",
     "output_sent_and_error", "output_error_on_send", "validate_error",
     "input_pending", "input_receive_error", "input_received",
     "input_processed", "input_processed_error"}

ErrorStates ==
    {"output_error_on_send", "validate_error", "input_receive_error",
     "input_processed_error"}

-----------------------------------------------------------------------------
(* Exceptions                                                             *)

\* the classes an exception of kind k is an instance of
ExcBases(k) ==
    CASE k = "FileNotFoundError" -> {"FileNotFoundError", "OSError", "IOError"}
      [] k = "OSError" -> {"OSError", "IOError"}
      [] k = "UnicodeEncodeError" -> {"UnicodeEncodeError", "ValueError"}
      [] k = "ValidationError" -> {"ValidationError", "UserError"}
      [] OTHER -> {k}

IsInstance(k, classes) == ExcBases(k) \cap classes # {}

_swallable_exceptions ==
    {"ValueError", "FileNotFoundError", "UserError", "ValidationError"}

RetryableWithoutOSError == {"ConnectionError"}

_send_retryable_exceptions == {"IOError", "OSError"}

\* what a handler may raise
HandlerExceptions ==
    {"OSError", "FileNotFoundError", "ValueError", "UserError", "KeyError"}

\* outcome of one handler invocation: a returned value or a raised exception
Ret(x) == [k |-> "ret", v |-> x, e |-> ""]
Raise(kind) == [k |-> "raise", v |-> PyNone, e |-> kind]
NoOutcome == [k |-> "none", v |-> PyNone, e |-> ""]

-----------------------------------------------------------------------------
(* Component lookup                                                        *)

\* a component class; backend_type / exchange_type "" is no binding
Component(name, usage, backend_type, exchange_type) ==
    [name |-> name, usage |-> usage, backend_type |-> backend_type,
     exchange_type |-> exchange_type]

NoComponent == Component("", "", "", "")

\* the classes registered for the usage whose bindings, if any, equal the
\* attributes looked up; in registration order
_matching_components(reg, usage, backend_type, exchange_type) ==
    SelectSeq(reg, LAMBDA c :
        /\ c.usage = usage
        /\ c.backend_type \in {"", backend_type}
        /\ c.exchange_type \in {"", exchange_type})

SortKeyExchangeTypeFirst(component_class) ==
    <<IF component_class.exchange_type # "" THEN 1 ELSE 0,
      IF component_class.backend_type # "" THEN 1 ELSE 0>>

_component_sort_key(component_class) ==
    <<IF component_class.backend_type # "" THEN 1 ELSE 0,
      IF component_class.exchange_type # "" THEN 1 ELSE 0>>

\* Python's order on tuples
TupleLess(a, b) == a[1] < b[1] \/ (a[1] = b[1] /\ a[2] < b[2])

\* x placed behind the elements of the sorted s whose key is greater
InsertReverse(x, s) ==
    LET n == Cardinality({i \in 1..Len(s) :
                 TupleLess(_component_sort_key(x), _component_sort_key(s[i]))})
    IN  SubSeq(s, 1, n) \o <<x>> \o SubSeq(s, n + 1, Len(s))

RECURSIVE SortedReverse(_)
\* sorted(components, key=_component_sort_key, reverse=True): a stable sort,
\* elements of equal key keep their order
SortedReverse(s) ==
    IF s = <<>> THEN <<>> ELSE InsertReverse(Head(s), SortedReverse(Tail(s)))

_component_match_attrs(rec) ==
    [backend_type |-> Backends[rec.backend_id].backend_type,
     exchange_type |-> rec.type]

_get_component_conf_for_record(rec, key) ==
    ExchangeTypes[rec.type].components[key]

UsageCandidatesGenericFirst(rec, key) ==
    LET base_usage == Direction(rec) \o "." \o key
        record_conf == _get_component_conf_for_record(rec, key)
    IN  <<base_usage>> \o (IF record_conf # "" THEN <<record_conf>> ELSE <<>>)

_get_component_usage_candidates(rec, key) ==
    LET base_usage == Direction(rec) \o "." \o key
        record_conf == _get_component_conf_for_record(rec, key)
    IN  (IF record_conf # "" THEN <<record_conf>> ELSE <<>>) \o <<base_usage>>

RECURSIVE FirstMatching(_, _, _)
\* the loop of _find_component over the usage candidates
FirstMatching(reg, usage_candidates, kw) ==
    IF usage_candidates = <<>> THEN NoComponent
    ELSE LET components == _matching_components(
                 reg, Head(usage_candidates), kw.backend_type, kw.exchange_type)
         IN  IF components = <<>>
             THEN FirstMatching(reg, Tail(usage_candidates), kw)
             ELSE SortedReverse(components)[1]

FindComponentIgnoresSafe(reg, usage_candidates, safe, kw) ==
    LET component == FirstMatching(reg, usage_candidates, kw)
    IN  IF component = NoComponent
        THEN [exc |-> "NoComponentError", component |-> NoComponent]
        ELSE [exc |-> "", component |-> component]

\* [exc |-> "" or the exception raised, component |-> the class or NoComponent]
_find_component(reg, usage_candidates, safe, kw) ==
    LET component == FirstMatching(reg, usage_candidates, kw)
    IN  IF component = NoComponent /\ ~safe
        THEN [exc |-> "NoComponentError", component |-> NoComponent]
        ELSE [exc |-> "", component |-> component]

_get_component(reg, rec, key) ==
    _find_component(reg, _get_component_usage_candidates(rec, key), TRUE,
                    _component_match_attrs(rec)).component

-----------------------------------------------------------------------------
(* Payload encoding                                                        *)

RECURSIVE StrEncode(_, _, _)
\* str.encode(encoding, errors=...) on a sequence of code points below 2048:
\* [exc |-> "" or "UnicodeEncodeError", v |-> the bytes]
StrEncode(s, encoding, errors) ==
    IF s = <<>> THEN [exc |-> "", v |-> <<>>]
    ELSE LET c == Head(s)
             rest == StrEncode(Tail(s), encoding, errors)
             one == IF c < 128 THEN [exc |-> "", v |-> <<c>>]
                    ELSE IF encoding = "UTF-8"
                         THEN [exc |-> "", v |-> <<192 + (c \div 64), 128 + (c % 64)>>]
                    ELSE IF errors = "ignore" THEN [exc |-> "", v |-> <<>>]
                    ELSE IF errors = "replace" THEN [exc |-> "", v |-> <<63>>]
                    ELSE [exc |-> "UnicodeEncodeError", v |-> <<>>]
         IN  IF one.exc # "" THEN one
             ELSE IF rest.exc # "" THEN rest
             ELSE [exc |-> "", v |-> one.v \o rest.v]

\* the character of the base64 alphabet for a 6-bit value
B64Char(i) ==
    IF i < 26 THEN 65 + i
    ELSE IF i < 52 THEN 97 + (i - 26)
    ELSE IF i < 62 THEN 48 + (i - 52)
    ELSE IF i = 62 THEN 43 ELSE 47

RECURSIVE B64(_)
B64(s) ==
    IF s = <<>> THEN <<>>
    ELSE IF Len(s) = 1
    THEN <<B64Char(s[1] \div 4), B64Char((s[1] % 4) * 16), 61, 61>>
    ELSE IF Len(s) = 2
    THEN <<B64Char(s[1] \div 4), B64Char((s[1] % 4) * 16 + (s[2] \div 16)),
           B64Char((s[2] % 16) * 4), 61>>
    ELSE <<B64Char(s[1] \div 4), B64Char((s[1] % 4) * 16 + (s[2] \div 16)),
           B64Char((s[2] % 16) * 4 + (s[3] \div 64)), B64Char(s[3] % 64)>>
         \o B64(SubSeq(s, 4, Len(s)))

\* base64.b64encode of a bytes value
b64encode(x) == Bytes(B64(x.v))

-----------------------------------------------------------------------------
(* Outcome of one call on the backend                                      *)

\* rec: the record after the call; exc: "" when the call returned, else the
\* exception it raised; ret: what it returned, or the message of the
\* exception of a failed check; called: the handlers invoked;
\* notified: the notifications sent, in order; wrote: the fields written
Outcome(rec, exc, ret, called, notified, wrote) ==
    [rec |-> rec, exc |-> exc, ret |-> ret, called |-> called,
     notified |-> notified, wrote |-> wrote]

-----------------------------------------------------------------------------
(* generate                                                                *)

CheckGenerateDirectionOnly(rec, force) ==
    IF Direction(rec) # "output" THEN "not an outgoing record" ELSE ""

\* "" when the checks pass, else the UserError raised
_check_exchange_generate(rec, force) ==
    IF rec.edi_exchange_state # "new" /\ Truthy(rec.exchange_file) /\ ~force
    THEN "not in draft state and has already an output value"
    ELSE IF Direction(rec) # "output"
    THEN "not an outgoing record"
    ELSE IF Truthy(rec.exchange_file)
    THEN "already has a file to process"
    ELSE ""

\* [exc |-> "" or the exception raised, called |-> the handlers invoked]
_validate_data(reg, rec, ov) ==
    IF /\ Direction(rec) = "input"
       /\ ~Truthy(rec.exchange_file)
       /\ ~ExchangeTypes[rec.type].allow_empty_files_on_receive
    THEN [exc |-> "ValueError", called |-> {}]
    ELSE IF _get_component(reg, rec, "validate") # NoComponent
    THEN [exc |-> IF ov.k = "raise" THEN ov.e ELSE "", called |-> {"validate"}]
    ELSE [exc |-> "", called |-> {}]

\* the output as bytes, encoded with the type's charset and error handler
\* when it is text: [exc |-> "" or the exception raised, v |-> the bytes]
EncodeOutput(rec, output) ==
    LET type == ExchangeTypes[rec.type]
        encoding == IF type.encoding # "" THEN type.encoding ELSE "UTF-8"
        encoding_error_handler ==
            IF type.encoding_out_error_handler # ""
            THEN type.encoding_out_error_handler ELSE "strict"
    IN  IF output.t = "bytes" THEN [exc |-> "", v |-> output.v]
        ELSE StrEncode(output.v, encoding, encoding_error_handler)

StoreOutputKeepsState(rec, output) ==
    [rec EXCEPT !.exchange_file = b64encode(output)]

StoreOutputAsReceived(rec, output) ==
    [rec EXCEPT !.exchange_file = b64encode(output),
                !.edi_exchange_state = "input_received"]

\* the update() that stores the output on the record
StoreOutput(rec, output) ==
    [rec EXCEPT !.exchange_file = b64encode(output),
                !.edi_exchange_state = "output_pending"]

\* og, ov: what the generate and the validate handler do when invoked
exchange_generate(reg, rec, store, force, og, ov) ==
    LET drop == force /\ Truthy(rec.exchange_file)
        r1 == IF drop THEN [rec EXCEPT !.exchange_file = PyFalse] ELSE rec
        w1 == IF drop THEN {"exchange_file"} ELSE {}
        check == _check_exchange_generate(r1, force)
        output == og.v
        keep == Truthy(output) /\ store
        enc == EncodeOutput(rec, output)
        \* `output` after the optional encoding
        output2 == IF keep THEN Bytes(enc.v) ELSE output
        r2 == IF keep THEN StoreOutput(r1, output2) ELSE r1
        w2 == IF keep THEN w1 \cup {"exchange_file", "edi_exchange_state"} ELSE w1
        val == IF Truthy(output2) THEN _validate_data(reg, r2, ov)
               ELSE [exc |-> "", called |-> {}]
        r3 == [r2 EXCEPT !.edi_exchange_state = "validate_error",
                         !.exchange_error = _get_exception_msg]
    IN  IF check # ""
        THEN Outcome(r1, "UserError", check, {}, <<>>, w1)
        ELSE IF _get_component(reg, r1, "generate") = NoComponent
        THEN Outcome(r1, "NotImplementedError", "", {}, <<>>, w1)
        ELSE IF og.k = "raise"
        THEN Outcome(r1, og.e, "", {"generate"}, <<>>, w1)
        ELSE IF keep /\ enc.exc # ""
        THEN Outcome(r1, enc.exc, "", {"generate"}, <<>>, w1)
        ELSE IF val.exc = "EDIValidationError"
        THEN Outcome(r3, "", "validate_ko", {"generate"} \cup val.called,
                     <<"complete:generate">>,
                     w2 \cup {"edi_exchange_state", "exchange_error"})
        ELSE IF val.exc # ""
        THEN Outcome(r2, val.exc, "", {"generate"} \cup val.called, <<>>, w2)
        ELSE Outcome(r2, "", IF Truthy(output2) THEN "generate_ok" ELSE "None",
                     {"generate"} \cup val.called, <<"complete:generate">>, w2)

-----------------------------------------------------------------------------
(* send                                                                    *)

\* the fields of the write() in the finally clause of send, process, receive
FinallyWrite == {"edi_exchange_state", "exchange_error", "exchanged_on"}

_failed_output_check_send_msg == "Nothing to do. Likely already sent."

OutputCheckSendPendingOnly(rec) ==
    IF Direction(rec) # "output"
    THEN [exc |-> "not meant to be sent", ok |-> FALSE]
    ELSE IF ~Truthy(rec.exchange_file)
    THEN [exc |-> "has no file to send", ok |-> FALSE]
    ELSE [exc |-> "", ok |-> rec.edi_exchange_state = "output_pending"]

OutputCheckSendNeverRaises(rec) ==
    [exc |-> "",
     ok |-> /\ Direction(rec) = "output"
            /\ Truthy(rec.exchange_file)
            /\ rec.edi_exchange_state \in {"output_pending", "output_error_on_send"}]

\* [exc |-> "" or the UserError raised, ok |-> the value returned]
_output_check_send(rec) ==
    IF Direction(rec) # "output"
    THEN [exc |-> "not meant to be sent", ok |-> FALSE]
    ELSE IF ~Truthy(rec.exchange_file)
    THEN [exc |-> "has no file to send", ok |-> FALSE]
    ELSE [exc |-> "",
          ok |-> rec.edi_exchange_state \in {"output_pending", "output_error_on_send"}]

\* what invoking the handler of `key` gives: the handler's outcome h, or
\* NotImplementedError when no component is found
Invoke(reg, rec, key, h) ==
    IF _get_component(reg, rec, key) = NoComponent
    THEN [out |-> Raise("NotImplementedError"), called |-> {}]
    ELSE [out |-> h, called |-> {key}]

\* strict: the context key _edi_send_break_on_error; hs: what the send
\* handler does when invoked
exchange_send(reg, rec, strict, now, hs) ==
    LET check == _output_check_send(rec)
        inv == Invoke(reg, rec, "send", hs)
        out == inv.out
        finally(state, error) ==
            [rec EXCEPT !.edi_exchange_state = state, !.exchange_error = error,
                        !.exchanged_on = now]
    IN  IF check.exc # ""
        THEN Outcome(rec, "UserError", check.exc, {}, <<>>, {})
        ELSE IF ~check.ok
        THEN Outcome(rec, "", _failed_output_check_send_msg, {}, <<>>, {})
        ELSE IF out.k = "raise" /\ IsInstance(out.e, _send_retryable_exceptions)
        THEN Outcome(finally(rec.edi_exchange_state, _get_exception_msg),
                     "RetryableJobError", "", inv.called, <<>>, FinallyWrite)
        ELSE IF out.k = "raise" /\ IsInstance(out.e, _swallable_exceptions) /\ ~strict
        THEN Outcome(finally("output_error_on_send", _get_exception_msg),
                     "", "Error: traceback", inv.called, <<"complete:send">>,
                     FinallyWrite)
        ELSE IF out.k = "raise"
        THEN Outcome(finally(rec.edi_exchange_state, PyFalse),
                     out.e, "", inv.called, <<>>, FinallyWrite)
        ELSE Outcome(finally(IF Backends[rec.backend_id].output_sent_processed_auto
                             THEN "output_sent_and_processed" ELSE "output_sent",
                             PyNone),
                     "", "send_ok", inv.called, <<"complete:send">>, FinallyWrite)

-----------------------------------------------------------------------------
(* process                                                                 *)

_exchange_process_check(rec) ==
    IF Direction(rec) # "input"
    THEN [exc |-> "not meant to be processed", ok |-> FALSE]
    ELSE IF /\ ~Truthy(rec.exchange_file)
            /\ ~ExchangeTypes[rec.type].allow_empty_files_on_receive
    THEN [exc |-> "has no file to process", ok |-> FALSE]
    ELSE [exc |-> "",
          ok |-> rec.edi_exchange_state \in {"input_received", "input_processed_error"}]

ProcessHooksEveryError(state, old_state) ==
    IF state = "input_processed_error" THEN <<"error:process_ko">>
    ELSE IF state = "input_processed" THEN <<"done">>
    ELSE <<>>

\* the hooks fired after the write() in the finally clause of process
ProcessHooks(state, old_state) ==
    IF state = "input_processed_error" /\ old_state # "input_processed_error"
    THEN <<"error:process_ko">>
    ELSE IF state = "input_processed" THEN <<"done">>
    ELSE <<>>

\* strict: the context key _edi_process_break_on_error
exchange_process(reg, rec, strict, now, hp) ==
    LET check == _exchange_process_check(rec)
        inv == Invoke(reg, rec, "process", hp)
        out == inv.out
        old_state == rec.edi_exchange_state
        swallowed == out.k = "raise" /\ IsInstance(out.e, _swallable_exceptions)
                     /\ ~strict
        state == IF out.k # "raise" THEN "input_processed"
                 ELSE IF swallowed THEN "input_processed_error"
                 ELSE old_state
        error == IF out.k # "raise" THEN PyNone
                 ELSE IF swallowed THEN _get_exception_msg
                 ELSE PyFalse
        r1 == [rec EXCEPT !.edi_exchange_state = state, !.exchange_error = error,
                          !.exchanged_on = now]
        hooks == ProcessHooks(state, old_state)
    IN  IF check.exc # ""
        THEN Outcome(rec, "UserError", check.exc, {}, <<>>, {})
        ELSE IF ~check.ok
        THEN Outcome(rec, "", "Nothing to do. Likely already processed.",
                     {}, <<>>, {})
        ELSE IF out.k = "raise" /\ ~swallowed
        THEN Outcome(r1, out.e, "", inv.called, hooks, FinallyWrite)
        ELSE Outcome(r1, "", IF swallowed THEN "Error: traceback" ELSE "result",
                     inv.called, hooks \o <<"complete:process">>, FinallyWrite)

-----------------------------------------------------------------------------
(* receive                                                                 *)

_exchange_receive_check(rec) ==
    IF Direction(rec) # "input"
    THEN [exc |-> "not meant to be processed", ok |-> FALSE]
    ELSE [exc |-> "",
          ok |-> rec.edi_exchange_state \in {"input_pending", "input_receive_error"}]

\* the record's _set_file_content: text is encoded, the bytes stored base64
_set_file_content(rec, content) ==
    [rec EXCEPT !.exchange_file =
        b64encode(IF content.t = "bytes" THEN content
                  ELSE Bytes(StrEncode(content.v, "UTF-8", "strict").v))]

\* strict: the context key _edi_receive_break_on_error; hr, hv: what the
\* receive and the validate handler do when invoked
exchange_receive(reg, rec, strict, now, hr, hv) ==
    LET check == _exchange_receive_check(rec)
        inv == Invoke(reg, rec, "receive", hr)
        content == inv.out.v
        stored == inv.out.k = "ret" /\ content # PyNone
        r1 == IF stored THEN _set_file_content(rec, content) ELSE rec
        val == IF stored THEN _validate_data(reg, r1, hv)
               ELSE [exc |-> "", called |-> {}]
        \* the exception leaving the try block, "" when none does
        raised == IF inv.out.k = "raise" THEN inv.out.e ELSE val.exc
        called == inv.called \cup val.called
        wrote == FinallyWrite \cup (IF stored THEN {"exchange_file"} ELSE {})
        finally(state, error) ==
            [r1 EXCEPT !.edi_exchange_state = state, !.exchange_error = error,
                       !.exchanged_on = now]
    IN  IF check.exc # ""
        THEN Outcome(rec, "UserError", check.exc, {}, <<>>, {})
        ELSE IF ~check.ok
        THEN Outcome(rec, "", "Nothing to do. Likely already received.",
                     {}, <<>>, {})
        ELSE IF raised = "EDIValidationError"
        THEN Outcome(finally("validate_error", _get_exception_msg),
                     "", "Validation error: traceback", called,
                     <<"complete:receive">>, wrote)
        ELSE IF raised # "" /\ IsInstance(raised, _swallable_exceptions) /\ ~strict
        THEN Outcome(finally("input_receive_error", _get_exception_msg),
                     "", "Input error: traceback", called,
                     <<"complete:receive">>, wrote)
        ELSE IF raised # ""
        THEN Outcome(finally(rec.edi_exchange_state, PyFalse),
                     raised, "", called, <<>>, wrote)
        ELSE Outcome(finally("input_received", PyNone),
                     "", "receive_ok", called, <<"complete:receive">>, wrote)

-----------------------------------------------------------------------------
(* create_record                                                           *)

\* the exchange types of the code that the backend may use
_get_exchange_type_domain(backend, code) ==
    {c \in TypeCodes :
        /\ c = code
        /\ ExchangeTypes[c].backend_type = Backends[backend].backend_type}

\* values: the edi_exchange_state and exchange_file given by the caller
_create_record_prepare_values(backend, type_code, values) ==
    [backend_id |-> backend, type |-> type_code,
     edi_exchange_state |-> values.edi_exchange_state,
     exchange_file |-> values.exchange_file,
     exchange_error |-> PyFalse, exchanged_on |-> 0]

-----------------------------------------------------------------------------
(* Inputs of the calls                                                     *)

FixedBytes == Bytes(<<72, 105>>)

\* a file a record is created with
GivenFile == b64encode(Bytes(<<79, 75>>))

CreateValues ==
    [edi_exchange_state : {"new", "input_pending"},
     exchange_file : {PyFalse, GivenFile}]

GenerateOutcomes ==
    {Ret(PyNone), Ret(FixedBytes), Ret(Str(<<233>>))}
        \cup {Raise(e) : e \in {"OSError", "ValueError"}}

ValidateOutcomes == {Ret(PyNone), Raise("EDIValidationError"), Raise("ValueError")}

SendOutcomes == {Ret(PyNone)} \cup {Raise(e) : e \in HandlerExceptions}

ProcessOutcomes == {Ret(PyNone)} \cup {Raise(e) : e \in HandlerExceptions}

ReceiveOutcomes ==
    {Ret(PyNone), Ret(Str(<<>>)), Ret(FixedBytes)}
        \cup {Raise(e) : e \in HandlerExceptions}

\* a generic component for every usage
AllComponents ==
    <<Component("generate", "output.generate", "", ""),
      Component("send", "output.send", "", ""),
      Component("custom_send", "custom.send", "", ""),
      Component("check", "output.check", "", ""),
      Component("validate_out", "output.validate", "", ""),
      Component("receive", "input.receive", "", ""),
      Component("process", "input.process", "", ""),
      Component("validate_in", "input.validate", "", "")>>

\* the registries the lifecycle is explored with: every handler, every
\* handler but the validators, no handler
LifecycleRegistries ==
    {AllComponents,
     SelectSeq(AllComponents,
               LAMBDA c : c.usage \notin {"output.validate", "input.validate"}),
     <<>>}

-----------------------------------------------------------------------------
(* The calls                                                               *)

\* the record_ids argument of a sync call: None, or a list of ids
NoIds == [given |-> FALSE, ids |-> {}]
Ids(s) == [given |-> TRUE, ids |-> s]

NoRecord ==
    [backend_id |-> 0, type |-> "", edi_exchange_state |-> "",
     exchange_file |-> PyFalse, exchange_error |-> PyFalse, exchanged_on |-> 0]

\* op: the method called; rec: the id of the record it was called on;
\* before: that record when the call started; store, force, strict, safe,
\* key: the arguments; h, hv: what the handler of the action and the validate
\* handler did, when invoked; exc, ret, called, notified, wrote: see Outcome;
\* component: the component class a lookup returned; backend, skip_send,
\* skip_sent, record_ids: the arguments of a sync call; enqueued: the jobs it
\* handed to the queue; checked: the ids of the records it invoked check on
NoCall ==
    [op |-> "none", rec |-> 0, before |-> NoRecord, store |-> FALSE,
     force |-> FALSE, strict |-> FALSE, safe |-> FALSE, key |-> "",
     h |-> NoOutcome, hv |-> NoOutcome, exc |-> "",
     ret |-> "", called |-> {}, notified |-> <<>>, wrote |-> {},
     component |-> NoComponent,
     backend |-> 0, skip_send |-> FALSE, skip_sent |-> FALSE,
     record_ids |-> NoIds, enqueued |-> <<>>, checked |-> <<>>]

\* the call op on record i, which was `before`, with outcome o
Call(op, i, before, store, force, strict, h, hv, o) ==
    [NoCall EXCEPT
        !.op = op, !.rec = i, !.before = before, !.store = store,
        !.force = force, !.strict = strict,
        !.h = IF op \in o.called THEN h ELSE NoOutcome,
        !.hv = IF "validate" \in o.called THEN hv ELSE NoOutcome,
        !.exc = o.exc, !.ret = o.ret, !.called = o.called,
        !.notified = o.notified, !.wrote = o.wrote]

\* Record 1 along the scenario: created new on a backend without
\* auto-processing (1), generate of fixed bytes (2), send hitting a
\* connectivity fault (3), send succeeding (4); 5 once it left the scenario.
E2EStep(phase, recs, l) ==
    IF l.rec # 1 THEN phase
    ELSE IF /\ phase = 0 /\ l.op = "create" /\ l.exc = ""
            /\ recs[1].backend_id = 1 /\ Direction(recs[1]) = "output"
            /\ recs[1].edi_exchange_state = "new"
            /\ recs[1].exchange_file = PyFalse
    THEN 1
    ELSE IF /\ phase = 1 /\ l.op = "generate" /\ l.store
            /\ l.h = Ret(FixedBytes) /\ l.hv.k # "raise"
    THEN 2
    ELSE IF phase = 2 /\ l.op = "send" /\ l.h = Raise("OSError")
    THEN 3
    ELSE IF phase = 3 /\ l.op = "send" /\ l.h.k = "ret"
    THEN 4
    ELSE 5

Step(recs, l) ==
    /\ records' = recs
    /\ last' = l
    /\ e2e' = E2EStep(e2e, recs, l)
    /\ created' = IF Len(recs) > Len(records)
                  THEN Append(created, recs[Len(recs)].edi_exchange_state)
                  ELSE created
    /\ UNCHANGED <<registry, jobs>>

create_record(backend, type_code, values) ==
    /\ Len(records) < Cardinality(RecordIds)
    /\ LET found == _get_exchange_type_domain(backend, type_code) # {}
           recs == IF found
                   THEN Append(records,
                            _create_record_prepare_values(backend, type_code, values))
                   ELSE records
           o == Outcome(PyNone, IF found THEN "" ELSE "AssertionError", "",
                        {}, <<>>, {})
       IN  Step(recs, Call("create", Len(recs), NoRecord, FALSE, FALSE, FALSE,
                           NoOutcome, NoOutcome, o))

CreateRecord ==
    \E b \in BackendIds, c \in TypeCodes, values \in CreateValues :
        create_record(b, c, values)

Generate ==
    \E i \in 1..Len(records), store \in BOOLEAN, force \in BOOLEAN,
       hg \in GenerateOutcomes, hv \in ValidateOutcomes :
        LET o == exchange_generate(registry, records[i], store, force, hg, hv)
        IN  Step([records EXCEPT ![i] = o.rec],
                 Call("generate", i, records[i], store, force, FALSE, hg, hv, o))

Send ==
    \E i \in 1..Len(records), strict \in BOOLEAN, now \in 1..MaxNow,
       hs \in SendOutcomes :
        LET o == exchange_send(registry, records[i], strict, now, hs)
        IN  Step([records EXCEPT ![i] = o.rec],
                 Call("send", i, records[i], FALSE, FALSE, strict, hs, NoOutcome, o))

Receive ==
    \E i \in 1..Len(records), strict \in BOOLEAN, now \in 1..MaxNow,
       hr \in ReceiveOutcomes, hv \in ValidateOutcomes :
        LET o == exchange_receive(registry, records[i], strict, now, hr, hv)
        IN  Step([records EXCEPT ![i] = o.rec],
                 Call("receive", i, records[i], FALSE, FALSE, strict, hr, hv, o))

Process ==
    \E i \in 1..Len(records), strict \in BOOLEAN, now \in 1..MaxNow,
       hp \in ProcessOutcomes :
        LET o == exchange_process(registry, records[i], strict, now, hp)
        IN  Step([records EXCEPT ![i] = o.rec],
                 Call("process", i, records[i], FALSE, FALSE, strict, hp, NoOutcome, o))

Init ==
    /\ registry \in LifecycleRegistries
    /\ records = <<>>
    /\ last = NoCall
    /\ e2e = 0
    /\ jobs = <<>>
    /\ created = <<>>

Next == CreateRecord \/ Generate \/ Send \/ Receive \/ Process

Spec == Init /\ [][Next]_vars

-----------------------------------------------------------------------------
(* The component lookup on its own: any registry, any lookup               *)

ResolveComponents ==
    {Component(n, u, b, t) :
        n \in {"A", "B"}, u \in {"output.send", "custom.send"},
        b \in {"", "bt_a", "bt_b"}, t \in {"", "out_utf8"}}

InitResolve ==
    /\ registry \in UNION {[1..n -> ResolveComponents] : n \in 0..MaxHandlers}
    /\ records = <<>>
    /\ last = NoCall
    /\ e2e = 0
    /\ jobs = <<>>
    /\ created = <<>>

\* _find_component for a record of the backend and type, as _get_component
\* calls it, with either value of safe
FindComponent ==
    \E b \in BackendIds, c \in {"out_utf8", "out_ascii"},
       key \in {"send", "generate"}, safe \in BOOLEAN :
        LET rec == _create_record_prepare_values(
                       b, c, [edi_exchange_state |-> "new",
                              exchange_file |-> PyFalse])
            res == _find_component(
                       registry, _get_component_usage_candidates(rec, key),
                       safe, _component_match_attrs(rec))
        IN  /\ last' = [NoCall EXCEPT
                           !.op = "find_component", !.before = rec,
                           !.key = key, !.safe = safe, !.exc = res.exc,
                           !.component = res.component]
            /\ UNCHANGED <<registry, records, e2e, jobs, created>>

NextResolve == FindComponent

SpecResolve == InitResolve /\ [][NextResolve]_vars

TypeOK ==
    /\ \A i \in 1..Len(records) : records[i].edi_exchange_state \in States
    /\ e2e \in 0..5

-----------------------------------------------------------------------------
(* The claims                                                              *)

\* the record the last call was made on, as it is now
Cur == records[last.rec]

HasFile(rec) == Truthy(rec.exchange_file)

\* C1 as stated: after a generate() that returns, the state is
\* output_pending or validate_error, and the record has a file iff its
\* state is output_pending.
C1_AsStated ==
    (last.op = "generate" /\ last.exc = "") =>
        /\ Cur.edi_exchange_state \in {"output_pending", "validate_error"}
        /\ HasFile(Cur) <=> Cur.edi_exchange_state = "output_pending"

\* C1: after a generate() with store=true that returns and whose handler
\* output, encoded when it is text, is at least one byte, the state is
\* output_pending or validate_error and, in both states, the record's file
\* is the base64 of the output.  After a generate() that returns with
\* store=false, or whose handler output is empty or None, the record has no
\* file and its state is the one before the call, or validate_error when
\* the validation of the output that was not stored failed.
C1_GenerateStored ==
    (last.op = "generate" /\ last.exc = "" /\ last.h.k = "ret") =>
        /\ (last.store /\ EncodeOutput(last.before, last.h.v).v # <<>>) =>
              /\ Cur.edi_exchange_state \in {"output_pending", "validate_error"}
              /\ Cur.exchange_file =
                     b64encode(Bytes(EncodeOutput(last.before, last.h.v).v))
              /\ HasFile(Cur)
        /\ (~last.store \/ ~Truthy(last.h.v)) =>
              /\ ~HasFile(Cur)
              /\ Cur.edi_exchange_state =
                     IF last.hv = Raise("EDIValidationError")
                     THEN "validate_error"
                     ELSE last.before.edi_exchange_state

\* a generate() of text that stored the file and ended in validate_error
C1_Witness ==
    /\ last.op = "generate" /\ last.exc = "" /\ last.store
    /\ last.h = Ret(Str(<<233>>))
    /\ Cur.edi_exchange_state = "validate_error"
    /\ HasFile(Cur)

\* C2 as stated: when receive() passes its guard and the receive handler
\* returns None, the call stores no file and the state after it is not
\* input_received.
C2_AsStated ==
    (last.op = "receive" /\ last.h = Ret(PyNone)) =>
        /\ "exchange_file" \notin last.wrote
        /\ Cur.exchange_file = last.before.exchange_file
        /\ Cur.edi_exchange_state # "input_received"

\* C3 as stated: when send() passes its guard and the send handler raises a
\* connectivity or filesystem failure, the call raises the retry signal,
\* the state is the one before the call and the call writes no error text.
C3_AsStated ==
    (/\ last.op = "send" /\ last.h.k = "raise"
     /\ IsInstance(last.h.e, {"OSError"})) =>
        /\ last.exc = "RetryableJobError"
        /\ Cur.edi_exchange_state = last.before.edi_exchange_state
        /\ "exchange_error" \notin last.wrote
        /\ Cur.exchange_error = last.before.exchange_error


\* C4: record 1 created new on a backend without auto-processing; after
\* generate() of fixed bytes it is output_pending with the base64 of the
\* bytes as file; after a send() hitting a connectivity fault the retry
\* signal was raised and it is still output_pending; after a send() that
\* succeeds it is output_sent.
C4_EndToEnd ==
    /\ e2e = 1 => records[1].edi_exchange_state = "new"
    /\ e2e = 2 =>
          /\ records[1].edi_exchange_state = "output_pending"
          /\ records[1].exchange_file = b64encode(FixedBytes)
    /\ e2e = 3 =>
          /\ last.exc = "RetryableJobError"
          /\ records[1].edi_exchange_state = "output_pending"
    /\ e2e = 4 => records[1].edi_exchange_state = "output_sent"

\* the scenario ran to its end
C4_Witness == e2e = 4 /\ records[1].edi_exchange_state = "output_sent"

\* C5 as stated: a process() from input_processed_error whose handler
\* succeeds ends in input_processed with the done-notification sent once;
\* a process() on a record in input_processed returns the no-op result,
\* invokes no handler, sends no done-notification and changes nothing.
C5_AsStated ==
    last.op = "process" =>
        /\ (last.before.edi_exchange_state = "input_processed_error"
                /\ last.h.k = "ret") =>
              /\ Cur.edi_exchange_state = "input_processed"
              /\ Len(SelectSeq(last.notified, LAMBDA n : n = "done")) = 1
        /\ last.before.edi_exchange_state = "input_processed" =>
              /\ last.exc = ""
              /\ last.ret = "Nothing to do. Likely already processed."
              /\ last.called = {}
              /\ last.notified = <<>>
              /\ Cur = last.before

\* C6: a send() without strict mode on a record in output_pending whose
\* handler raises a validation or user-input failure returns a message and
\* leaves the record in output_error_on_send with an error text; a send()
\* on an output record in output_error_on_send that has its file (as that
\* send leaves it) invokes the send handler.
C6_RecordableSend ==
    last.op = "send" =>
        /\ (/\ last.before.edi_exchange_state = "output_pending"
             /\ ~last.strict
             /\ last.h.k = "raise"
             /\ last.h.e \in {"ValueError", "UserError"}) =>
              /\ Cur.edi_exchange_state = "output_error_on_send"
              /\ Truthy(Cur.exchange_error)
              /\ last.exc = ""
              /\ last.ret = "Error: traceback"
        /\ (/\ last.before.edi_exchange_state = "output_error_on_send"
             /\ Direction(last.before) = "output"
             /\ HasFile(last.before)) =>
              "send" \in last.called

\* a send() whose handler is invoked on a record that a failed send left
\* in output_error_on_send with its error text
C6_Witness ==
    /\ last.op = "send"
    /\ last.before.edi_exchange_state = "output_error_on_send"
    /\ Truthy(last.before.exchange_error)
    /\ "send" \in last.called

\* C7: generate() with force=false on a record that is not new and has a
\* file raises the guard's UserError, invokes no generate handler and
\* leaves the record as it was.
C7_GenerateGuard ==
    (/\ last.op = "generate" /\ ~last.force
     /\ last.before.edi_exchange_state # "new"
     /\ HasFile(last.before)) =>
        /\ last.exc = "UserError"
        /\ last.called = {}
        /\ Cur.edi_exchange_state = last.before.edi_exchange_state
        /\ Cur = last.before

C7_Witness ==
    /\ last.op = "generate" /\ ~last.force
    /\ last.before.edi_exchange_state = "output_pending"
    /\ HasFile(last.before)
    /\ last.exc = "UserError"

\* the classes of the registry matching the looked-up record for the usage
MatchesFor(usage) ==
    _matching_components(registry, usage,
                         _component_match_attrs(last.before).backend_type,
                         _component_match_attrs(last.before).exchange_type)

\* C8: when a lookup returns a handler and a handler bound to the record's
\* backend type is registered for the same usage (before or after a
\* handler without backend type), the handler returned is bound to the
\* record's backend type.
C8_BackendTypeWins ==
    (/\ last.op = "find_component"
     /\ last.component # NoComponent
     /\ \E i \in 1..Len(MatchesFor(last.component.usage)) :
            MatchesFor(last.component.usage)[i].backend_type # "") =>
        last.component.backend_type =
            _component_match_attrs(last.before).backend_type

\* the handler without backend type is registered first, and is bound to
\* the exchange type; the one bound to the backend type is returned
C8_Witness ==
    /\ last.op = "find_component"
    /\ Len(registry) = 2
    /\ registry[1] = Component("A", "output.send", "", "out_utf8")
    /\ registry[2] = Component("B", "output.send", "bt_a", "")
    /\ last.before.type = "out_utf8"
    /\ last.key = "send"
    /\ last.component = registry[2]

NoMatch ==
    LET candidates == _get_component_usage_candidates(last.before, last.key)
    IN  \A i \in 1..Len(candidates) : MatchesFor(candidates[i]) = <<>>

\* C9: a lookup none of whose usage candidates has a matching handler
\* returns no component without raising when safe, and raises
\* NoComponentError when not safe.
C9_SafeLookup ==
    (last.op = "find_component" /\ NoMatch) =>
        /\ last.safe => (last.exc = "" /\ last.component = NoComponent)
        /\ ~last.safe => last.exc = "NoComponentError"

\* a lookup with safe=false that raises although handlers are registered
C9_Witness ==
    /\ last.op = "find_component" /\ ~last.safe /\ NoMatch
    /\ Len(registry) = 2
    /\ last.exc = "NoComponentError"

\* C10 as stated: a record's error text is non-empty iff its state is one
\* of the error states.
C10_AsStated ==
    \A i \in 1..Len(records) :
        Truthy(records[i].exchange_error) <=>
            records[i].edi_exchange_state \in ErrorStates

\* the handler of the last call raised a failure that is neither retryable
\* (for send) nor recordable, or no handler was found
FatalFailure ==
    /\ last.op \in {"send", "receive", "process"}
    /\ \/ last.exc = "NotImplementedError"
       \/ /\ last.h.k = "raise"
          /\ ~IsInstance(last.h.e, _swallable_exceptions)
          /\ ~(last.op = "send" /\ IsInstance(last.h.e, _send_retryable_exceptions))

\* C11 as stated: when the handler invoked by send(), receive() or process()
\* raises a fatal failure (a missing handler included), the failure reaches
\* the caller and the record's state, error text and exchange timestamp are
\* the ones before the call.
C11_AsStated ==
    FatalFailure =>
        /\ last.exc # ""
        /\ Cur.edi_exchange_state = last.before.edi_exchange_state
        /\ Cur.exchange_error = last.before.exchange_error
        /\ Cur.exchanged_on = last.before.exchanged_on

\* the guard of send as the specification words it
SendGuard(rec) ==
    /\ Direction(rec) = "output"
    /\ HasFile(rec)
    /\ rec.edi_exchange_state \in {"output_pending", "output_error_on_send"}

\* C12 as stated: a send() on a record that does not satisfy the send guard
\* returns the no-op result, invokes no send handler and changes no field.
C12_AsStated ==
    (last.op = "send" /\ ~SendGuard(last.before)) =>
        /\ last.exc = ""
        /\ last.ret = _failed_output_check_send_msg
        /\ last.called = {}
        /\ Cur = last.before

\* C12: a send() on a record that does not satisfy the send guard invokes
\* no send handler and changes no field; it raises UserError when the
\* direction is not output or the record has no file, and returns the no-op
\* result when only the state is outside output_pending and
\* output_error_on_send.
C12_SendGuard ==
    (last.op = "send" /\ ~SendGuard(last.before)) =>
        /\ last.called = {}
        /\ last.wrote = {}
        /\ Cur = last.before
        /\ IF Direction(last.before) # "output" \/ ~HasFile(last.before)
           THEN last.exc = "UserError"
           ELSE last.exc = "" /\ last.ret = _failed_output_check_send_msg

\* a send() on an output record without file, which raised
C12_Witness ==
    /\ last.op = "send"
    /\ Direction(last.before) = "output"
    /\ ~HasFile(last.before)
    /\ last.exc = "UserError"
    /\ Cur = last.before

\* C13 as stated: a send() that passes the guard stamps the exchange
\* timestamp when the handler succeeds and when its failure is recorded,
\* and does not stamp it when the handler raises a retryable failure.
C13_AsStated ==
    (last.op = "send" /\ SendGuard(last.before)) =>
        /\ (last.exc = "" /\ "send" \in last.called) =>
              "exchanged_on" \in last.wrote
        /\ (last.h.k = "raise"
                /\ IsInstance(last.h.e, _send_retryable_exceptions)) =>
              /\ "exchanged_on" \notin last.wrote
              /\ Cur.exchanged_on = last.before.exchanged_on

\* how a call that invoked its handler disposed of the handler's failure
Classified(o) ==
    IF o.exc = "RetryableJobError" THEN "retryable"
    ELSE IF o.exc = "" THEN "recordable"
    ELSE "fatal"

\* a record of the type in the state, with or without a file
Probe(type_code, state, file) ==
    _create_record_prepare_values(
        1, type_code, [edi_exchange_state |-> state, exchange_file |-> file])

\* send, receive and process dispose of a handler failure of kind e alike
SameClassification(e) ==
    LET s == exchange_send(AllComponents,
                 Probe("out_utf8", "output_pending", GivenFile),
                 FALSE, 1, Raise(e))
        r == exchange_receive(AllComponents,
                 Probe("in_strict", "input_pending", PyFalse),
                 FALSE, 1, Raise(e), Ret(PyNone))
        p == exchange_process(AllComponents,
                 Probe("in_strict", "input_received", GivenFile),
                 FALSE, 1, Raise(e))
    IN  Classified(s) = Classified(r) /\ Classified(r) = Classified(p)

\* C14 as stated: a connectivity or filesystem failure raised by the handler
\* during send() or receive() ends in the retry signal and never in an error
\* state written on the record; and send, receive and process classify a
\* failure kind alike.
C14_AsStated ==
    /\ (/\ last.op \in {"send", "receive"}
        /\ last.h.k = "raise"
        /\ IsInstance(last.h.e, {"OSError"})) =>
          /\ last.exc = "RetryableJobError"
          /\ Cur.edi_exchange_state = last.before.edi_exchange_state
    /\ last.op \in {"send", "receive", "process"} =>
          \A e \in HandlerExceptions : SameClassification(e)

\* the call passed its guard (its handler was invoked), did not raise and
\* left the record in another state than rec's
MovedOut(rec, key, o) ==
    /\ o.exc = ""
    /\ key \in o.called
    /\ o.rec.edi_exchange_state # rec.edi_exchange_state

\* one of generate (force=false), send, receive, process, with handlers
\* that succeed, moves rec out of its state
CanLeave(reg, rec) ==
    \/ \E store \in BOOLEAN, og \in {o \in GenerateOutcomes : o.k = "ret"} :
          MovedOut(rec, "generate",
                   exchange_generate(reg, rec, store, FALSE, og, Ret(PyNone)))
    \/ MovedOut(rec, "send", exchange_send(reg, rec, FALSE, 1, Ret(PyNone)))
    \/ \E hr \in {o \in ReceiveOutcomes : o.k = "ret"} :
          MovedOut(rec, "receive",
                   exchange_receive(reg, rec, FALSE, 1, hr, Ret(PyNone)))
    \/ MovedOut(rec, "process", exchange_process(reg, rec, FALSE, 1, Ret(PyNone)))

\* C15 as stated: for a record in an error state, with every handler
\* registered, one of generate (force=false), send, receive, process passes
\* its guard and, its handler succeeding, moves the record out of that state.
C15_AsStated ==
    registry = AllComponents =>
        \A i \in 1..Len(records) :
            records[i].edi_exchange_state \in ErrorStates =>
                CanLeave(registry, records[i])

\* C16 as stated: generate() on a record whose direction is not output
\* raises the guard's UserError and leaves the record's state, file and
\* error text as they were, whatever store and force are.
C16_AsStated ==
    (last.op = "generate" /\ Direction(last.before) # "output") =>
        /\ last.exc = "UserError"
        /\ Cur.edi_exchange_state = last.before.edi_exchange_state
        /\ Cur.exchange_file = last.before.exchange_file
        /\ Cur.exchange_error = last.before.exchange_error

\* how many times the error hook of process was fired by the last call
ErrorNotifications ==
    Len(SelectSeq(last.notified, LAMBDA n : n = "error:process_ko"))

\* C17: after every process() call, whatever its handler did and in strict
\* mode or not, the error-notification was fired once if the call took the
\* record from a state other than input_processed_error to
\* input_processed_error, and was not fired otherwise (the call started in
\* input_processed_error, or did not end in it).
C17_ErrorNotifiedOnce ==
    last.op = "process" =>
        ErrorNotifications =
            IF /\ last.before.edi_exchange_state # "input_processed_error"
               /\ Cur.edi_exchange_state = "input_processed_error"
            THEN 1 ELSE 0

\* a process() whose handler failed again on a record that an earlier
\* process() had put in input_processed_error: no second notification
C17_Witness ==
    /\ last.op = "process"
    /\ last.before.edi_exchange_state = "input_processed_error"
    /\ last.h = Raise("ValueError")
    /\ ~last.strict
    /\ Cur.edi_exchange_state = "input_processed_error"
    /\ ErrorNotifications = 0

-----------------------------------------------------------------------------
(* The batch synchronizer and the job queue                                *)

\* a job handed to the queue for action_exchange_<action> of record rec.
\* depends_on: the id of the job it was chained to with on_done (0: none);
\* origin: the loop of the sweep that made it; started: it ran at least once
Job(rec, action, priority, depends_on, origin) ==
    [rec |-> rec, action |-> action, priority |-> priority,
     depends_on |-> depends_on,
     state |-> IF depends_on = 0 THEN "pending" ELSE "wait_dependencies",
     origin |-> origin, started |-> FALSE]

\* rec.delayable().action_exchange_generate() / rec.with_delay().action_...()
Delayed(rec, action, origin) == Job(rec, action, 10, 0, origin)

UnchainedSend(rec, job1) == Job(rec, "send", 0, 0, "new")

\* job1.on_done(rec.delayable(priority=0).action_exchange_send())
ChainedSend(rec, job1) == Job(rec, "send", 0, job1, "new")

\* `if record_ids: domain.append(("id", "in", record_ids))`
InRecordIds(id, record_ids) ==
    (record_ids.given /\ record_ids.ids # {}) => id \in record_ids.ids

NewRecordsDomainWithFile(backend, record_ids, rec, id) ==
    /\ rec.backend_id = backend
    /\ ExchangeTypes[rec.type].exchange_file_auto_generate
    /\ Direction(rec) = "output"
    /\ rec.edi_exchange_state = "new"
    /\ Truthy(rec.exchange_file)
    /\ InRecordIds(id, record_ids)

\* _output_new_records_domain: the records the sweep generates
_output_new_records_domain(backend, record_ids, rec, id) ==
    /\ rec.backend_id = backend
    /\ ExchangeTypes[rec.type].exchange_file_auto_generate
    /\ Direction(rec) = "output"
    /\ rec.edi_exchange_state = "new"
    /\ ~Truthy(rec.exchange_file)
    /\ InRecordIds(id, record_ids)

PendingDomainAlwaysSent(backend, skip_sent, record_ids, rec, id) ==
    /\ Direction(rec) = "output"
    /\ rec.backend_id = backend
    /\ rec.edi_exchange_state \in
           {"output_pending", "output_sent_and_error", "output_sent"}
    /\ InRecordIds(id, record_ids)

_output_pending_records_domain(backend, skip_sent, record_ids, rec, id) ==
    /\ Direction(rec) = "output"
    /\ rec.backend_id = backend
    /\ rec.edi_exchange_state \in
           {"output_pending", "output_sent_and_error"}
               \cup (IF ~skip_sent THEN {"output_sent"} ELSE {})
    /\ InRecordIds(id, record_ids)

_input_pending_records_domain(backend, record_ids, rec, id) ==
    /\ rec.backend_id = backend
    /\ Direction(rec) = "input"
    /\ rec.edi_exchange_state = "input_pending"
    /\ ~Truthy(rec.exchange_file)
    /\ InRecordIds(id, record_ids)

_input_pending_process_records_domain(backend, record_ids, rec, id) ==
    /\ rec.backend_id = backend
    /\ Direction(rec) = "input"
    /\ rec.edi_exchange_state \in {"input_received"}
    /\ InRecordIds(id, record_ids)

\* exchange_record_model.search(domain): the ids of the records of recs that
\* satisfy the domain (those of the set matching), in id order
Search(recs, matching) ==
    SelectSeq([i \in 1..Len(recs) |-> i], LAMBDA i : i \in matching)

\* _exchange_output_check_state: the check handler's outcome hc, or
\* NotImplementedError when no check component is found.  What the handler
\* does to the record is its own business and is left out.
_exchange_output_check_state(reg, rec, hc) == Invoke(reg, rec, "check", hc).out

\* q: the queue before the sweep; hc: what a check handler does when
\* invoked.  [jobs |-> the queue after, enqueued |-> the jobs added,
\* checked |-> the ids check was invoked on, exc |-> "" or the exception that
\* ended the sweep]
_check_output_exchange_sync(reg, recs, q, backend, skip_send, skip_sent, record_ids, hc) ==
    LET new_records ==
            Search(recs, {i \in 1..Len(recs) :
                       _output_new_records_domain(backend, record_ids, recs[i], i)})
        n == Len(new_records)
        new_jobs ==
            IF skip_send
            THEN [k \in 1..n |-> Delayed(new_records[k], "generate", "new")]
            ELSE [k \in 1..(2 * n) |->
                    IF k % 2 = 1
                    THEN Delayed(new_records[(k + 1) \div 2], "generate", "new")
                    ELSE ChainedSend(new_records[k \div 2], Len(q) + k - 1)]
        pending_records ==
            Search(recs, {i \in 1..Len(recs) :
                       _output_pending_records_domain(backend, skip_sent,
                                                      record_ids, recs[i], i)})
        to_send(i) == recs[i].edi_exchange_state = "output_pending"
        check(i) == _exchange_output_check_state(reg, recs[i], hc)
        \* the positions at which the loop is left by an exception
        raising == {k \in 1..Len(pending_records) :
                       /\ ~to_send(pending_records[k])
                       /\ check(pending_records[k]).k = "raise"}
        cut == IF raising = {} THEN Len(pending_records)
               ELSE CHOOSE k \in raising : \A m \in raising : k <= m
        reached == SubSeq(pending_records, 1, cut)
        sends == SelectSeq(reached, to_send)
        send_jobs == [k \in 1..Len(sends) |-> Delayed(sends[k], "send", "pending")]
    IN  IF skip_send
        THEN [jobs |-> q \o new_jobs, enqueued |-> new_jobs,
              checked |-> <<>>, exc |-> ""]
        ELSE [jobs |-> q \o new_jobs \o send_jobs,
              enqueued |-> new_jobs \o send_jobs,
              checked |-> SelectSeq(reached, LAMBDA i : ~to_send(i)),
              exc |-> IF raising = {} THEN ""
                      ELSE check(pending_records[cut]).e]

_check_input_exchange_sync(recs, q, backend, record_ids) ==
    LET pending_records ==
            Search(recs, {i \in 1..Len(recs) :
                       _input_pending_records_domain(backend, record_ids, recs[i], i)})
        pending_process_records ==
            Search(recs, {i \in 1..Len(recs) :
                       _input_pending_process_records_domain(backend, record_ids,
                                                             recs[i], i)})
        enq == [k \in 1..Len(pending_records) |->
                   Delayed(pending_records[k], "receive", "input")]
               \o [k \in 1..Len(pending_process_records) |->
                      Delayed(pending_process_records[k], "process", "input")]
    IN  [jobs |-> q \o enq, enqueued |-> enq, checked |-> <<>>, exc |-> ""]

\* the most jobs the queue is let grow to
MaxJobs == 2

\* The sweeps read every record of the table: they are followed over a
\* table of two records.
SyncRecordIds == {1, 2}

\* the rows the table is filled with
SyncRecordValues ==
    {_create_record_prepare_values(
         v[1], v[2], [edi_exchange_state |-> v[3], exchange_file |-> v[4]]) :
     v \in {<<1, "out_utf8", "new", PyFalse>>,
            <<2, "out_utf8", "new", PyFalse>>,
            <<1, "out_ascii", "new", PyFalse>>,
            <<1, "out_utf8", "output_pending", GivenFile>>,
            <<1, "out_utf8", "output_sent", GivenFile>>,
            <<1, "out_utf8", "output_sent_and_error", GivenFile>>,
            <<1, "in_strict", "input_pending", PyFalse>>,
            <<1, "in_strict", "input_received", GivenFile>>}}

\* The sweeps are followed for one backend; the rows of the other backend
\* are the ones its sweeps have to leave alone.
SweptBackends == {1}

\* the record_ids a sweep is called with: None, the empty list, lists
RecordIdsArgs == {NoIds, Ids({}), Ids({1})}

\* a check handler that is found succeeds; the sweep is left by an exception
\* when none is found
CheckOutcomes == {Ret(PyNone)}

\* what the handler of a job's action does
JobOutcomes(action) ==
    CASE action = "generate" -> {Ret(FixedBytes), Raise("ValueError")}
      [] action = "send" -> {Ret(PyNone), Raise("OSError")}
      [] action = "receive" -> {Ret(FixedBytes)}
      [] action = "process" -> {Ret(PyNone)}

\* the registries the sweeps are explored with: every handler, every
\* handler but check
SyncRegistries ==
    {AllComponents,
     SelectSeq(AllComponents, LAMBDA c : c.usage # "output.check")}

\* the record's action_exchange_<action>, which calls the backend's
\* exchange_<action> with the default arguments
action_exchange(reg, rec, action, now, h) ==
    CASE action = "generate" ->
             exchange_generate(reg, rec, TRUE, FALSE, h, Ret(PyNone))
      [] action = "send" -> exchange_send(reg, rec, FALSE, now, h)
      [] action = "receive" ->
             exchange_receive(reg, rec, FALSE, now, h, Ret(PyNone))
      [] action = "process" -> exchange_process(reg, rec, FALSE, now, h)

\* the queue after job j ran with outcome o: done when nothing was raised
\* (the jobs chained to it are released), pending again on the retry
\* signal, failed otherwise
JobRan(q, j, o) ==
    LET state == IF o.exc = "" THEN "done"
                 ELSE IF o.exc = "RetryableJobError" THEN "pending"
                 ELSE "failed"
    IN  [k \in 1..Len(q) |->
            IF k = j THEN [q[j] EXCEPT !.state = state, !.started = TRUE]
            ELSE IF /\ state = "done" /\ q[k].depends_on = j
                    /\ q[k].state = "wait_dependencies"
            THEN [q[k] EXCEPT !.state = "pending"]
            ELSE q[k]]

\* a worker runs a pending job; the time of the run is not followed
RunJob ==
    \E j \in 1..Len(jobs) :
        /\ jobs[j].state = "pending"
        /\ \E h \in JobOutcomes(jobs[j].action) :
              LET i == jobs[j].rec
                  o == action_exchange(registry, records[i], jobs[j].action, 1, h)
              IN  /\ records' = [records EXCEPT ![i] = o.rec]
                  /\ jobs' = JobRan(jobs, j, o)
                  /\ last' = Call(jobs[j].action, i, records[i],
                                  jobs[j].action = "generate", FALSE, FALSE,
                                  h, Ret(PyNone), o)
                  /\ UNCHANGED <<registry, e2e, created>>

SyncOutput ==
    \E b \in SweptBackends, skip_send \in BOOLEAN, skip_sent \in BOOLEAN,
       record_ids \in RecordIdsArgs, hc \in CheckOutcomes :
        LET o == _check_output_exchange_sync(registry, records, jobs, b,
                     skip_send, skip_sent, record_ids, hc)
        IN  /\ Len(o.jobs) <= MaxJobs
            /\ jobs' = o.jobs
            /\ last' = [NoCall EXCEPT
                           !.op = "sync_output", !.backend = b,
                           !.skip_send = skip_send, !.skip_sent = skip_sent,
                           !.record_ids = record_ids,
                           !.h = IF o.checked # <<>> /\ o.exc = ""
                                 THEN hc ELSE NoOutcome,
                           !.enqueued = o.enqueued, !.checked = o.checked,
                           !.exc = o.exc]
            /\ UNCHANGED <<registry, records, e2e, created>>

SyncInput ==
    \E b \in SweptBackends, record_ids \in RecordIdsArgs :
        LET o == _check_input_exchange_sync(records, jobs, b, record_ids)
        IN  /\ Len(o.jobs) <= MaxJobs
            /\ jobs' = o.jobs
            /\ last' = [NoCall EXCEPT
                           !.op = "sync_input", !.backend = b,
                           !.record_ids = record_ids,
                           !.enqueued = o.enqueued, !.exc = o.exc]
            /\ UNCHANGED <<registry, records, e2e, created>>

InitSync ==
    /\ registry \in SyncRegistries
    /\ records \in [SyncRecordIds -> SyncRecordValues]
    /\ last = NoCall
    /\ e2e = 0
    /\ jobs = <<>>
    /\ created = <<>>

NextSync == SyncOutput \/ SyncInput \/ RunJob

SpecSync == InitSync /\ [][NextSync]_vars

-----------------------------------------------------------------------------
(* The claims on the batch synchronizer                                    *)

\* record i is one that the output sweep of the last call takes as new
SelectedNew(i) ==
    /\ records[i].backend_id = last.backend
    /\ Direction(records[i]) = "output"
    /\ ExchangeTypes[records[i].type].exchange_file_auto_generate
    /\ records[i].edi_exchange_state = "new"
    /\ ~HasFile(records[i])
    /\ InRecordIds(i, last.record_ids)

\* C18: an output sweep with skip_send=false hands over, for every record
\* it takes as new, a generate job followed by a send job for the same
\* record; such a send job has not run as long as the generate job before
\* it is not done.  An output sweep with skip_send=true hands over no send
\* job.
C18_SendAfterGenerate ==
    /\ (last.op = "sync_output" /\ last.skip_send) =>
          \A k \in 1..Len(last.enqueued) : last.enqueued[k].action # "send"
    /\ (last.op = "sync_output" /\ ~last.skip_send) =>
          \A i \in 1..Len(records) :
              SelectedNew(i) =>
                  \E k \in 1..(Len(last.enqueued) - 1) :
                      /\ last.enqueued[k].rec = i
                      /\ last.enqueued[k].action = "generate"
                      /\ last.enqueued[k + 1].rec = i
                      /\ last.enqueued[k + 1].action = "send"
                      /\ last.enqueued[k + 1].origin = "new"
                      /\ last.enqueued[k + 1].priority < last.enqueued[k].priority
    /\ \A j \in 1..Len(jobs) :
          (jobs[j].action = "send" /\ jobs[j].origin = "new") =>
              /\ j > 1
              /\ jobs[j - 1].action = "generate"
              /\ jobs[j - 1].rec = jobs[j].rec
              /\ jobs[j].started => jobs[j - 1].state = "done"

\* a chained send job ran to its end, after its generate job
C18_Witness ==
    \E j \in 2..Len(jobs) :
        /\ jobs[j].action = "send" /\ jobs[j].origin = "new"
        /\ jobs[j].started /\ jobs[j].state = "done"
        /\ jobs[j - 1].state = "done"
        /\ records[jobs[j].rec].edi_exchange_state
               \in {"output_sent", "output_sent_and_processed"}

\* record i is one that the pending loop of the last output sweep takes
SelectedPending(i) ==
    /\ records[i].backend_id = last.backend
    /\ Direction(records[i]) = "output"
    /\ InRecordIds(i, last.record_ids)
    /\ \/ records[i].edi_exchange_state \in {"output_pending", "output_sent_and_error"}
       \/ records[i].edi_exchange_state = "output_sent" /\ ~last.skip_sent

\* the jobs the last sweep handed over for record i
EnqueuedFor(i) ==
    {k \in 1..Len(last.enqueued) : last.enqueued[k].rec = i}

\* how many times the last sweep invoked check on record i
Checks(i) == Len(SelectSeq(last.checked, LAMBDA c : c = i))

\* the last sweep handled record i as its state asks: one send job not
\* chained to anything and no check for output_pending, one check and no
\* job for another state
Dispatched(i) ==
    IF records[i].edi_exchange_state = "output_pending"
    THEN /\ Cardinality(EnqueuedFor(i)) = 1
         /\ \A k \in EnqueuedFor(i) :
               /\ last.enqueued[k].action = "send"
               /\ last.enqueued[k].depends_on = 0
         /\ Checks(i) = 0
    ELSE /\ Checks(i) = 1
         /\ EnqueuedFor(i) = {}

\* C19 as stated: in an output sweep with skip_send=false, every selected
\* record in output_pending gets exactly one send job and no check, every
\* selected record in another state gets check invoked in the sweep and no
\* job; records in output_sent are not selected when skip_sent=true.
C19_AsStated ==
    (last.op = "sync_output" /\ ~last.skip_send) =>
        \A i \in 1..Len(records) :
            /\ SelectedPending(i) => Dispatched(i)
            /\ (records[i].edi_exchange_state = "output_sent" /\ last.skip_sent) =>
                  Checks(i) = 0 /\ EnqueuedFor(i) = {}

\* C19: in an output sweep with skip_send=false, records in output_sent are
\* not touched when skip_sent=true.  When no check raises, every selected
\* record in output_pending gets exactly one send job and no check, and
\* every selected record in another state gets check invoked once and no
\* job.  When a check raises (no check handler found included), the sweep
\* ends with that exception: the selected records before that one are
\* handled in the same way, the ones after it get neither a job nor a check.
C19_PendingDispatch ==
    (last.op = "sync_output" /\ ~last.skip_send) =>
        \A i \in 1..Len(records) :
            /\ (records[i].edi_exchange_state = "output_sent" /\ last.skip_sent) =>
                  Checks(i) = 0 /\ EnqueuedFor(i) = {}
            /\ (SelectedPending(i) /\ last.exc = "") => Dispatched(i)
            /\ (SelectedPending(i) /\ last.exc # "") =>
                  /\ last.checked # <<>>
                  /\ i < last.checked[Len(last.checked)] => Dispatched(i)
                  /\ i = last.checked[Len(last.checked)] =>
                        Checks(i) = 1 /\ EnqueuedFor(i) = {}
                  /\ i > last.checked[Len(last.checked)] =>
                        Checks(i) = 0 /\ EnqueuedFor(i) = {}

\* a sweep that returned, sent a pending record to the queue and checked a
\* sent one
C19_Witness ==
    /\ last.op = "sync_output" /\ ~last.skip_send /\ ~last.skip_sent
    /\ last.exc = ""
    /\ \E i, k \in 1..Len(records) :
          /\ SelectedPending(i) /\ records[i].edi_exchange_state = "output_pending"
          /\ Cardinality(EnqueuedFor(i)) = 1
          /\ SelectedPending(k) /\ records[k].edi_exchange_state = "output_sent"
          /\ Checks(k) = 1

\* the ids of the records the last sweep handed a job over for, or invoked
\* check on
Targets ==
    {last.enqueued[k].rec : k \in 1..Len(last.enqueued)}
        \cup {last.checked[k] : k \in 1..Len(last.checked)}

\* C20 as stated: every record an output or input sweep on a backend
\* dispatches or invokes an action for is a record of that backend and,
\* when record_ids is given (the empty list included), has its id in
\* record_ids.
C20_AsStated ==
    last.op \in {"sync_output", "sync_input"} =>
        \A i \in Targets :
            /\ records[i].backend_id = last.backend
            /\ last.record_ids.given => i \in last.record_ids.ids

-----------------------------------------------------------------------------
(* The claims on the order of the usage candidates                         *)

\* the usage candidates of the last lookup as the specification words them:
\* the override usage of the record's type for the action key when one is
\* configured, then the generic usage <direction>.<action key>
CandidatesInOrder ==
    LET override == ExchangeTypes[last.before.type].components[last.key]
        generic == Direction(last.before) \o "." \o last.key
    IN  IF override # "" THEN <<override, generic>> ELSE <<generic>>

\* C21: a lookup returns a handler registered for the first usage candidate
\* (override usage first, then generic usage) that has a matching handler;
\* no handler of a later candidate is returned when an earlier candidate has
\* a match, also when the later handler is bound to the backend type or the
\* exchange type and the earlier one is not.
C21_FirstCandidateWins ==
    last.op = "find_component" =>
        \A k \in 1..Len(CandidatesInOrder) :
            (/\ MatchesFor(CandidatesInOrder[k]) # <<>>
             /\ \A m \in 1..(k - 1) : MatchesFor(CandidatesInOrder[m]) = <<>>) =>
                /\ last.exc = ""
                /\ last.component.usage = CandidatesInOrder[k]
                /\ \E n \in 1..Len(MatchesFor(CandidatesInOrder[k])) :
                      MatchesFor(CandidatesInOrder[k])[n] = last.component

\* the override usage has a handler without bindings, the generic usage one
\* bound to the backend type: the first is returned
C21_Witness ==
    /\ last.op = "find_component"
    /\ last.before.type = "out_ascii" /\ last.key = "send"
    /\ Len(registry) = 2
    /\ registry[1].usage = "output.send"
    /\ registry[1].backend_type = "bt_a"
    /\ registry[2] = Component("B", "custom.send", "", "")
    /\ MatchesFor("output.send") # <<>>
    /\ last.component = registry[2]

-----------------------------------------------------------------------------
(* The claims on the states a record can be in                             *)

TerminalSuccess == {"output_sent_and_processed", "input_processed"}

\* C22 as stated: a call of generate with force=false, send, receive or
\* process on a record in a terminal-success state, whatever the handlers
\* do, leaves the record's state, file and error text as they were.
C22_AsStated ==
    (/\ last.op \in {"generate", "send", "receive", "process"}
     /\ ~last.force
     /\ last.before.edi_exchange_state \in TerminalSuccess) =>
        /\ Cur.edi_exchange_state = last.before.edi_exchange_state
        /\ Cur.exchange_file = last.before.exchange_file
        /\ Cur.exchange_error = last.before.exchange_error

\* the states the actions on output records write, and new
OutputDirectionStates ==
    {"new", "output_pending", "output_sent", "output_sent_and_processed",
     "output_error_on_send", "validate_error"}

\* the states named output_*
OutputNamedStates ==
    {"output_pending", "output_sent", "output_sent_and_processed",
     "output_sent_and_error", "output_error_on_send"}

\* C25: after any sequence of generate, send, receive and process calls on
\* a record created in state new, an output record is in new,
\* output_pending, output_sent, output_sent_and_processed,
\* output_error_on_send or validate_error, and an input record is in none
\* of the output_* states.
C25_StatesOfDirection ==
    \A i \in 1..Len(records) :
        created[i] = "new" =>
            /\ Direction(records[i]) = "output" =>
                  records[i].edi_exchange_state \in OutputDirectionStates
            /\ Direction(records[i]) = "input" =>
                  records[i].edi_exchange_state \notin OutputNamedStates

\* an input record created new on which generate was called with force and
\* a handler that returns content
C25_Witness ==
    /\ last.op = "generate" /\ last.force /\ last.store
    /\ created[last.rec] = "new"
    /\ Direction(Cur) = "input"
    /\ last.exc = "UserError"
    /\ Cur.edi_exchange_state = "new"

-----------------------------------------------------------------------------
(* The claims on the jobs of repeated sweeps                               *)

\* job j is in the queue and has not run to an end
Queued(j) == jobs[j].state \in {"pending", "wait_dependencies"}

\* C24 as stated: whatever sweeps and job runs came before, no two jobs
\* that are queued at the same time are for the same record and the same
\* action.
C24_AsStated ==
    \A j, k \in 1..Len(jobs) :
        (j # k /\ Queued(j) /\ Queued(k)) =>
            ~(jobs[j].rec = jobs[k].rec /\ jobs[j].action = jobs[k].action)

-----------------------------------------------------------------------------
(* The recurring output sweep with handlers that succeed                   *)

\* the most jobs a sweep is let grow the queue to while jobs of its backend
\* are still queued
MaxLiveJobs == 4

\* the rows of the table: auto-generate records of both backends, a record
\* of a type that is not generated automatically, a record to send
LiveRecordValues ==
    {_create_record_prepare_values(
         v[1], v[2], [edi_exchange_state |-> v[3], exchange_file |-> v[4]]) :
     v \in {<<1, "out_utf8", "new", PyFalse>>,
            <<2, "out_utf8", "new", PyFalse>>,
            <<1, "out_ascii", "new", PyFalse>>,
            <<1, "out_utf8", "output_pending", GivenFile>>}}

\* the handlers succeed, generate with a non-empty content
LiveOutcomes(action) ==
    CASE action = "generate" -> Ret(FixedBytes)
      [] action = "send" -> Ret(PyNone)
      [] action = "receive" -> Ret(FixedBytes)
      [] action = "process" -> Ret(PyNone)

\* a job of a record of backend b is queued
QueuedFor(b) ==
    \E j \in 1..Len(jobs) :
        /\ jobs[j].state \in {"pending", "wait_dependencies"}
        /\ records[jobs[j].rec].backend_id = b

\* the scheduled _check_output_exchange_sync() of backend b, with the
\* defaults of its arguments: skip_send=False, skip_sent=True, all records.
\* A backend none of whose jobs is queued is always swept.
LiveSyncOutput(b) ==
    LET o == _check_output_exchange_sync(registry, records, jobs, b,
                 FALSE, TRUE, NoIds, Ret(PyNone))
    IN  /\ ~QueuedFor(b) \/ Len(o.jobs) <= MaxLiveJobs
        /\ jobs' = o.jobs
        /\ last' = [NoCall EXCEPT
                       !.op = "sync_output", !.backend = b,
                       !.skip_sent = TRUE,
                       !.enqueued = o.enqueued, !.checked = o.checked,
                       !.exc = o.exc]
        /\ UNCHANGED <<registry, records, e2e, created>>

\* a worker runs the pending job j
LiveRunJob(j) ==
    /\ j \in 1..Len(jobs)
    /\ jobs[j].state = "pending"
    /\ LET i == jobs[j].rec
           h == LiveOutcomes(jobs[j].action)
           o == action_exchange(registry, records[i], jobs[j].action, 1, h)
       IN  /\ records' = [records EXCEPT ![i] = o.rec]
           /\ jobs' = JobRan(jobs, j, o)
           /\ last' = Call(jobs[j].action, i, records[i],
                           jobs[j].action = "generate", FALSE, FALSE,
                           h, Ret(PyNone), o)
           /\ UNCHANGED <<registry, e2e, created>>

\* the longest the queue gets
MaxQueue == MaxLiveJobs + 2 * Cardinality(SyncRecordIds)

InitLive ==
    /\ registry = AllComponents
    /\ records \in [SyncRecordIds -> LiveRecordValues]
    /\ last = NoCall
    /\ e2e = 0
    /\ jobs = <<>>
    /\ created = <<>>

LiveSweep == \E b \in BackendIds : LiveSyncOutput(b)

LiveWorker == \E j \in 1..MaxQueue : LiveRunJob(j)

NextLive == LiveSweep \/ LiveWorker

\* the sweep of every backend recurs, and the worker does not stop while a
\* job is pending: a pending job stays pending until it is run and the queue
\* is finite, so every job that is pending is eventually run
SpecLive ==
    /\ InitLive
    /\ [][NextLive]_vars
    /\ \A b \in BackendIds : WF_vars(LiveSyncOutput(b))
    /\ WF_vars(LiveWorker)

\* record i is what the new-records loop of the sweep selects
AutoNew(i) ==
    /\ Direction(records[i]) = "output"
    /\ records[i].edi_exchange_state = "new"
    /\ ~Truthy(records[i].exchange_file)
    /\ ExchangeTypes[records[i].type].exchange_file_auto_generate

\* record i was sent, and marked processed when its backend does that
SentOut(i) ==
    records[i].edi_exchange_state =
        IF Backends[records[i].backend_id].output_sent_processed_auto
        THEN "output_sent_and_processed" ELSE "output_sent"

\* C23: with the sweep recurring, every pending job run and the handlers
\* succeeding, an output record of an auto-generate type that is new and
\* has no file is eventually sent: output_sent, or
\* output_sent_and_processed when its backend marks sent records processed.
C23_NewEventuallySent ==
    \A i \in SyncRecordIds : AutoNew(i) ~> SentOut(i)

\* a record was generated by a job of the sweep, sent by the job chained to
\* it, and is in the state of the claim
C23_Witness ==
    \E i \in SyncRecordIds, j \in 1..Len(jobs), k \in 1..Len(jobs) :
        /\ jobs[j].rec = i /\ jobs[j].action = "generate"
        /\ jobs[j].state = "done"
        /\ jobs[k].depends_on = j /\ jobs[k].state = "done"
        /\ SentOut(i)
        /\ Backends[records[i].backend_id].output_sent_processed_auto

=============================================================================
